---- MODULE Spec2Model ----
(***************************************************************************)
(* WikiSQL front end: parse (text -> WikiQuery) and compile_query          *)
(* (WikiQuery -> SPARQL text + column map), as driven by cli.run_query.    *)
(*                                                                         *)
(* Strings the program inspects character by character (the query text,   *)
(* identifiers, literal values) are sequences of one-character strings;   *)
(* the SPARQL text the compiler formats is built from them with \o, so    *)
(* that generated lines are compared byte for byte.  The only whitespace  *)
(* character in the modelled texts is the blank.                          *)
(***************************************************************************)
EXTENDS Integers, Sequences, FiniteSets, TLC

VARIABLES pc, sql, language, query, error, result, calls

vars == <<pc, sql, language, query, error, result, calls>>

\* Python's None for an absent optional string (the parser never stores "").
None == <<>>

(***************************************************************************)
(* Character and string primitives (str.upper, str.lower, str.strip, \d,   *)
(* \w, \s+ splitting, str.join).                                           *)
(***************************************************************************)
LowerChars == <<"a","b","c","d","e","f","g","h","i","j","k","l","m",
                "n","o","p","q","r","s","t","u","v","w","x","y","z">>

UpperChars == <<"A","B","C","D","E","F","G","H","I","J","K","L","M",
                "N","O","P","Q","R","S","T","U","V","W","X","Y","Z">>

\* str.upper and str.lower on one character, as tables.
UpperOf == [c \in {LowerChars[i] : i \in 1..26} |->
               UpperChars[CHOOSE i \in 1..26 : LowerChars[i] = c]]

LowerOf == [c \in {UpperChars[i] : i \in 1..26} |->
               LowerChars[CHOOSE i \in 1..26 : UpperChars[i] = c]]

CharUpper(c) == IF c \in DOMAIN UpperOf THEN UpperOf[c] ELSE c

CharLower(c) == IF c \in DOMAIN LowerOf THEN LowerOf[c] ELSE c

upper(s) == [i \in 1..Len(s) |-> CharUpper(s[i])]

lower(s) == [i \in 1..Len(s) |-> CharLower(s[i])]

\* \d and \w
DigitChars == {"0","1","2","3","4","5","6","7","8","9"}

WordChars == DOMAIN UpperOf \cup DOMAIN LowerOf \cup DigitChars \cup {"_"}

IsDigit(c) == c \in DigitChars

IsWordChar(c) == c \in WordChars

IsWord(s) == Len(s) >= 1 /\ \A i \in 1..Len(s) : IsWordChar(s[i])

AllDigits(s) == Len(s) >= 1 /\ \A i \in 1..Len(s) : IsDigit(s[i])

RECURSIVE lstrip(_)
lstrip(s) == IF s /= <<>> /\ Head(s) = " " THEN lstrip(Tail(s)) ELSE s

RECURSIVE rstrip(_, _)
rstrip(s, ch) ==
    IF s /= <<>> /\ s[Len(s)] = ch THEN rstrip(SubSeq(s, 1, Len(s) - 1), ch) ELSE s

strip(s) == rstrip(lstrip(s), " ")

startswith(s, p) == Len(s) >= Len(p) /\ SubSeq(s, 1, Len(p)) = p

endswith(s, p) == Len(s) >= Len(p) /\ SubSeq(s, Len(s) - Len(p) + 1, Len(s)) = p

\* re.split(r"\s+", s) on a stripped string: the blank-separated lexemes, each
\* running from a non-blank that begins the text or follows a blank to the
\* next non-blank that ends the text or precedes a blank.
Lexemes(s) ==
    LET n == Len(s)
        places == [i \in 1..n |-> i]
        IsStart(i) == s[i] /= " " /\ (i = 1 \/ s[i - 1] = " ")
        IsStop(i) == s[i] /= " " /\ (i = n \/ s[i + 1] = " ")
        starts == SelectSeq(places, IsStart)
        stops == SelectSeq(places, IsStop)
    IN [k \in 1..Len(starts) |-> SubSeq(s, starts[k], stops[k])]

\* " ".join(parts)
RECURSIVE JoinSp(_)
JoinSp(parts) ==
    IF parts = <<>> THEN <<>>
    ELSE IF Len(parts) = 1 THEN parts[1]
    ELSE parts[1] \o <<" ">> \o JoinSp(Tail(parts))

\* The text of a character sequence, as formatted into an f-string.
RECURSIVE Str(_)
Str(s) == IF s = <<>> THEN "" ELSE Head(s) \o Str(Tail(s))

\* First index of character ch in s, 0 when absent (str.find + 1).
IndexOf(s, ch) ==
    IF \E i \in 1..Len(s) : s[i] = ch
    THEN CHOOSE i \in 1..Len(s) : s[i] = ch /\ \A k \in 1..(i - 1) : s[k] /= ch
    ELSE 0

\* The longest prefix of s made of word characters (what a trailing \w+ matches).
RECURSIVE WordPrefix(_)
WordPrefix(s) ==
    IF s /= <<>> /\ IsWordChar(Head(s)) THEN <<Head(s)>> \o WordPrefix(Tail(s)) ELSE <<>>

(***************************************************************************)
(* Data types (parser.py): ColumnKind, Column, Op, Condition, WikiTable,   *)
(* JoinClause, WikiQuery.                                                  *)
(***************************************************************************)
ColumnKind == {"STAR", "LABEL", "QID", "ITEM", "ITEM_QID"}

Column(kind, pid, alias) == [kind |-> kind, pid |-> pid, alias |-> alias]

Op == {<<"=">>, <<"!", "=">>, <<"<">>, <<">">>, <<"<", "=">>, <<">", "=">>}

Condition(column, op, value, is_qid_col, pid) ==
    [column |-> column, op |-> op, value |-> value,
     is_qid_col |-> is_qid_col, pid |-> pid]

WikiTable(property, qid, alias) == [property |-> property, qid |-> qid, alias |-> alias]

JoinClause(table, on_left, on_right) ==
    [table |-> table, on_left |-> on_left, on_right |-> on_right]

WikiQuery(columns, table, joins, conditions, limit, order_by) ==
    [columns |-> columns, table |-> table, joins |-> joins,
     conditions |-> conditions, limit |-> limit, order_by |-> order_by]

(***************************************************************************)
(* Regex patterns and tokeniser helpers (parser.py).                       *)
(***************************************************************************)
\* P\d+ under re.IGNORECASE
IsPidCI(s) == Len(s) >= 2 /\ s[1] \in {"P", "p"} /\ AllDigits(Tail(s))

\* Q\d+ under re.IGNORECASE
IsQidCI(s) == Len(s) >= 2 /\ s[1] \in {"Q", "q"} /\ AllDigits(Tail(s))

\* TABLE_RE: ^(?:(?P<prop>P\d+):)?(?P<qid>Q\d+)$
TABLE_RE(token) ==
    LET k == IndexOf(token, ":") IN
    IF k = 0 THEN IsQidCI(token)
    ELSE IsPidCI(SubSeq(token, 1, k - 1)) /\ IsQidCI(SubSeq(token, k + 1, Len(token)))

\* COLUMN_RE: ^(?P<pid>P\d+?)(?P<qid_suffix>_qid)?$
COLUMN_RE(raw) ==
    \/ IsPidCI(raw)
    \/ /\ Len(raw) > 4
       /\ lower(SubSeq(raw, Len(raw) - 3, Len(raw))) = <<"_","q","i","d">>
       /\ IsPidCI(SubSeq(raw, 1, Len(raw) - 4))

\* A failed helper returns a record without the fields of a value.
Raise(msg) == [raised |-> msg]

Raised(v) == "raised" \in DOMAIN v

\* A variant that keeps the table reference in the letter case it was written.
parse_table_AsWritten(token) ==
    IF ~TABLE_RE(token) THEN Raise("Invalid table reference")
    ELSE LET k == IndexOf(token, ":") IN
         WikiTable(IF k = 0 THEN <<"P","3","1">> ELSE SubSeq(token, 1, k - 1),
                   SubSeq(token, k + 1, Len(token)),
                   None)

parse_table(token) ==
    IF ~TABLE_RE(token) THEN Raise("Invalid table reference")
    ELSE LET k == IndexOf(token, ":") IN
         WikiTable(IF k = 0 THEN <<"P","3","1">> ELSE upper(SubSeq(token, 1, k - 1)),
                   upper(SubSeq(token, k + 1, Len(token))),
                   None)

\* re.match(r"(.+?)\s+AS\s+(\w+)", raw, re.IGNORECASE) over the lexemes of raw:
\* the number of lexemes of group 1, or 0 when there is no match.
AsMatch(toks) ==
    LET hits == {k \in 1..(Len(toks) - 2) :
                    /\ upper(toks[k + 1]) = <<"A","S">>
                    /\ IsWordChar(toks[k + 2][1])}
    IN IF hits = {} THEN 0 ELSE CHOOSE k \in hits : \A h \in hits : k <= h

parse_column(raw0) ==
    LET Classify(stripped, raw, alias) ==
            IF stripped = <<"*">> THEN Column("STAR", None, None)
            ELSE IF lower(raw) = <<"i","t","e","m","_","q","i","d">>
                 THEN Column("ITEM_QID", None, alias)
            ELSE IF lower(raw) = <<"i","t","e","m">> THEN Column("ITEM", None, alias)
            ELSE IF COLUMN_RE(raw)
                 THEN IF IsPidCI(raw)
                      THEN Column("LABEL", upper(raw), alias)
                      ELSE Column("QID", upper(SubSeq(raw, 1, Len(raw) - 4)), alias)
            ELSE Raise("Unknown column")
        WithAs(stripped, toks, k) ==
            Classify(stripped,
                     IF k = 0 THEN stripped ELSE JoinSp(SubSeq(toks, 1, k)),
                     IF k = 0 THEN None ELSE WordPrefix(toks[k + 2]))
        Split(stripped, toks) == WithAs(stripped, toks, AsMatch(toks))
        Of(stripped) == Split(stripped, Lexemes(stripped))
    IN Of(strip(raw0))

\* OP_RE.search: index of the first operator character of text, 0 when none.
OpStart(text) ==
    LET hits == {i \in 1..Len(text) :
                    \/ text[i] \in {"<", ">", "="}
                    \/ (text[i] = "!" /\ i < Len(text) /\ text[i + 1] = "=")}
    IN IF hits = {} THEN 0 ELSE CHOOSE i \in hits : \A h \in hits : i <= h

\* OP_RE alternation (!=|<=|>=|<|>|=): the operator matched at index i.
OpAt(text, i) ==
    IF text[i] = "!" THEN <<"!", "=">>
    ELSE IF text[i] \in {"<", ">"} /\ i < Len(text) /\ text[i + 1] = "="
         THEN <<text[i], "=">>
    ELSE <<text[i]>>

\* The quotes of a value: '...' or "..." around it are dropped.
StripQuotes(val_raw) ==
    IF /\ val_raw /= <<>>
       /\ \E qc \in {"'", "\""} : Head(val_raw) = qc /\ val_raw[Len(val_raw)] = qc
    THEN SubSeq(val_raw, 2, Len(val_raw) - 1)
    ELSE val_raw

parse_condition(text0) ==
    LET text == strip(text0)
        i == OpStart(text)
    IN IF i = 0 THEN Raise("No operator found in condition")
       ELSE LET op == OpAt(text, i)
                col_raw == strip(SubSeq(text, 1, i - 1))
                val_raw == StripQuotes(strip(SubSeq(text, i + Len(op), Len(text))))
                col_upper == upper(col_raw)
                is_qid == endswith(col_upper, <<"_","Q","I","D">>)
                pid == IF is_qid THEN SubSeq(col_upper, 1, Len(col_upper) - 4)
                       ELSE col_upper
            IN IF ~(Len(pid) >= 2 /\ pid[1] = "P" /\ AllDigits(Tail(pid)))
               THEN Raise("WHERE column must be a property (P-ID)")
               ELSE Condition(col_raw, op, val_raw, is_qid, pid)

(***************************************************************************)
(* Main parser.                                                            *)
(***************************************************************************)
RECURSIVE SplitQ(_, _, _, _, _)
SplitQ(text, delimiter, parts, current, in_quote) ==
    IF text = <<>> THEN (IF current /= <<>> THEN Append(parts, current) ELSE parts)
    ELSE LET char == Head(text) IN
         IF char \in {"'", "\""} /\ in_quote = None
         THEN SplitQ(Tail(text), delimiter, parts, Append(current, char), <<char>>)
         ELSE IF <<char>> = in_quote
         THEN SplitQ(Tail(text), delimiter, parts, Append(current, char), None)
         ELSE IF char = delimiter /\ in_quote = None
         THEN SplitQ(Tail(text), delimiter, Append(parts, current), <<>>, None)
         ELSE SplitQ(Tail(text), delimiter, parts, Append(current, char), in_quote)

split_respecting_quotes(text) == SplitQ(text, ",", <<>>, <<>>, None)

\* str.split(","): every part is kept, the empty ones too.
RECURSIVE SplitComma(_, _, _)
SplitComma(text, parts, current) ==
    IF text = <<>> THEN Append(parts, current)
    ELSE IF Head(text) = "," THEN SplitComma(Tail(text), Append(parts, current), <<>>)
    ELSE SplitComma(Tail(text), parts, Append(current, Head(text)))

kSELECT == <<"S","E","L","E","C","T">>

kFROM == <<"F","R","O","M">>

kAS == <<"A","S">>

kJOIN == <<"J","O","I","N">>

kINNER == <<"I","N","N","E","R">>

kON == <<"O","N">>

kWHERE == <<"W","H","E","R","E">>

kAND == <<"A","N","D">>

kORDER == <<"O","R","D","E","R">>

kBY == <<"B","Y">>

kLIMIT == <<"L","I","M","I","T">>

\* The words that end the FROM clause's table reference (no implicit alias).
keywords ==
    {kWHERE, kLIMIT, kORDER, <<"G","R","O","U","P">>, <<"H","A","V","I","N","G">>,
     kJOIN, kINNER, <<"L","E","F","T">>, <<"R","I","G","H","T">>, <<"C","R","O","S","S">>}

\* The first element of a sequence of results that raised, 0 when none did.
FirstRaised(rs) ==
    LET hits == {i \in 1..Len(rs) : Raised(rs[i])} IN
    IF hits = {} THEN 0 ELSE CHOOSE i \in hits : \A h \in hits : i <= h

\* parse, lines 224-228: the column list.
ParseColumns(toks, f) ==
    LET columns_raw == strip(JoinSp(SubSeq(toks, 2, f - 1)))
        raws == split_respecting_quotes(columns_raw)
    IN IF columns_raw = <<"*">> THEN <<Column("STAR", None, None)>>
       ELSE [i \in 1..Len(raws) |-> parse_column(raws[i])]

\* parse, lines 231-250: the table token, its alias and the clause remainder,
\* the remainder as its sequence of lexemes.
ParseFrom(rest) ==
    LET table == parse_table(rest[1])
        next_upper == upper(rest[2])
    IN IF Raised(table) THEN table
       ELSE IF Len(rest) = 1 THEN [table |-> table, remainder |-> <<>>]
       ELSE IF next_upper = kAS /\ Len(rest) > 2
            THEN [table |-> [table EXCEPT !.alias = rest[3]],
                  remainder |-> SubSeq(rest, 4, Len(rest))]
       ELSE IF next_upper \notin keywords
            THEN [table |-> [table EXCEPT !.alias = rest[2]],
                  remainder |-> SubSeq(rest, 3, Len(rest))]
       ELSE [table |-> table, remainder |-> SubSeq(rest, 2, Len(rest))]

\* (\w+(?:\.\w+)?) at the start of s: the longest reference, <<>> when none.
RefPrefix(s) ==
    LET w1 == WordPrefix(s)
        after == SubSeq(s, Len(w1) + 1, Len(s))
        w2 == IF after /= <<>> /\ Head(after) = "." THEN WordPrefix(Tail(after)) ELSE <<>>
    IN IF w1 = <<>> THEN <<>>
       ELSE IF w2 = <<>> THEN w1
       ELSE w1 \o <<".">> \o w2

\* (\w+(?:\.\w+)?)\s*=\s*(\w+(?:\.\w+)?) at the start of s.
OnMatch(s) ==
    LET Matched(left, s1, s2, right) ==
            IF left /= <<>> /\ s1 /= <<>> /\ Head(s1) = "=" /\ right /= <<>>
            THEN [ok |-> TRUE, on_left |-> left, on_right |-> right,
                  rest |-> SubSeq(s2, Len(right) + 1, Len(s2))]
            ELSE [ok |-> FALSE]
        AfterEquals(left, s1, s2) == Matched(left, s1, s2, RefPrefix(s2))
        AfterLeft(left, s1) ==
            AfterEquals(left, s1, IF s1 = <<>> THEN <<>> ELSE lstrip(Tail(s1)))
        WithLeft(left) == AfterLeft(left, lstrip(SubSeq(s, Len(left) + 1, Len(s))))
    IN WithLeft(RefPrefix(s))

\* \s+ON\s+<ref> = <ref> from lexeme p of the remainder.
OnAt(rem, p) ==
    IF p < Len(rem) /\ upper(rem[p]) = kON
    THEN OnMatch(JoinSp(SubSeq(rem, p + 1, Len(rem))))
    ELSE [ok |-> FALSE]

\* join_pattern tried at lexeme s of the remainder, the alternatives in the
\* order the regex tries them: AS alias, bare alias, no alias.
JoinAt(rem, s) ==
    LET Alternatives(j, withAs, bare, plain) ==
            LET hit(m, alias) ==
                    [ok |-> TRUE, start |-> s, table |-> rem[j + 1], alias |-> alias,
                     on_left |-> m.on_left, on_right |-> m.on_right, rest |-> m.rest]
            IN IF ~(j <= Len(rem) /\ upper(rem[j]) = kJOIN /\ j + 1 <= Len(rem))
               THEN [ok |-> FALSE]
               ELSE IF /\ j + 3 <= Len(rem)
                       /\ upper(rem[j + 2]) = kAS
                       /\ IsWord(rem[j + 3])
                       /\ withAs.ok
                    THEN hit(withAs, rem[j + 3])
               ELSE IF j + 2 <= Len(rem) /\ IsWord(rem[j + 2]) /\ bare.ok
                    THEN hit(bare, rem[j + 2])
               ELSE IF plain.ok THEN hit(plain, None)
               ELSE [ok |-> FALSE]
        From(j) == Alternatives(j, OnAt(rem, j + 4), OnAt(rem, j + 3), OnAt(rem, j + 2))
    IN From(IF upper(rem[s]) = kINNER THEN s + 1 ELSE s)

\* A variant of the search that returns the rightmost match.
JoinSearch_Rightmost(rem) ==
    LET Pick(m) ==
            LET hits == {s \in 1..Len(rem) : m[s].ok} IN
            IF hits = {} THEN [ok |-> FALSE]
            ELSE m[CHOOSE s \in hits : \A h \in hits : s >= h]
    IN Pick([s \in 1..Len(rem) |-> JoinAt(rem, s)])

\* join_pattern.search(remainder): the leftmost match.
JoinSearch(rem) ==
    LET Pick(m) ==
            LET hits == {s \in 1..Len(rem) : m[s].ok} IN
            IF hits = {} THEN [ok |-> FALSE]
            ELSE m[CHOOSE s \in hits : \A h \in hits : s <= h]
    IN Pick([s \in 1..Len(rem) |-> JoinAt(rem, s)])

\* parse, lines 260-272: the loop that takes the joins out of the remainder.
\* A join table that is no table reference ends the loop with the error.
\* at[i] is the place lexeme i of the remainder has in the remainder the loop
\* began with; spans records, in those places, jm.start() and the last lexeme
\* of each match, and how many lexemes the match took.
RECURSIVE ParseJoinsAt(_, _, _, _)
ParseJoinsAt(remainder, at, joins, spans) ==
    LET Take(jm, join_table, rest, stop) ==
            IF Raised(join_table) THEN join_table
            ELSE ParseJoinsAt(
                     SubSeq(remainder, 1, jm.start - 1) \o rest,
                     SubSeq(at, 1, jm.start - 1) \o SubSeq(at, stop + 1, Len(at)),
                     Append(joins, JoinClause(
                         IF jm.alias /= None THEN [join_table EXCEPT !.alias = jm.alias]
                         ELSE join_table,
                         jm.on_left, jm.on_right)),
                     Append(spans, [start |-> at[jm.start], stop |-> at[stop],
                                    lexemes |-> stop - jm.start + 1]))
        Matched(jm, rest) ==
            Take(jm, parse_table(jm.table), rest, Len(remainder) - Len(rest))
        Found(jm) ==
            IF ~jm.ok THEN [joins |-> joins, remainder |-> remainder, spans |-> spans]
            ELSE Matched(jm, Lexemes(jm.rest))
    IN Found(JoinSearch(remainder))

ParseJoins(remainder) ==
    ParseJoinsAt(remainder, [i \in 1..Len(remainder) |-> i], <<>>, <<>>)

\* Least element of a non-empty set of indices; 0 for the empty set.
First(hits) == IF hits = {} THEN 0 ELSE CHOOSE i \in hits : \A h \in hits : i <= h

\* The lexeme after which a lazy (.+?) that began at lexeme b stops: the first
\* e >= b followed by ORDER BY (when orderEnds), by LIMIT, or by the end.
LazyEnd(rem, b, orderEnds) ==
    First({e \in b..Len(rem) :
              \/ e = Len(rem)
              \/ startswith(upper(rem[e + 1]), kLIMIT)
              \/ /\ orderEnds
                 /\ upper(rem[e + 1]) = kORDER
                 /\ e + 2 <= Len(rem)
                 /\ startswith(upper(rem[e + 2]), kBY)})

\* re.split(r"\s+AND\s+", where_text): an AND lexeme separates when it is
\* neither first nor last and does not directly follow a separating AND.
RECURSIVE SplitAnd(_, _, _, _)
SplitAnd(toks, i, parts, current) ==
    IF i > Len(toks) THEN Append(parts, JoinSp(current))
    ELSE IF upper(toks[i]) = kAND /\ i > 1 /\ i < Len(toks) /\ current /= <<>>
         THEN SplitAnd(toks, i + 1, Append(parts, JoinSp(current)), <<>>)
         ELSE SplitAnd(toks, i + 1, parts, Append(current, toks[i]))

\* parse, lines 275-285: the WHERE clause of the remainder.
ParseWhere(rem) ==
    LET w == First({i \in 1..(Len(rem) - 1) : upper(rem[i]) = kWHERE}) IN
    IF w = 0 THEN <<>>
    ELSE LET where_text == SubSeq(rem, w + 1, LazyEnd(rem, w + 1, TRUE))
             cond_parts == SplitAnd(where_text, 1, <<>>, <<>>)
         IN [i \in 1..Len(cond_parts) |-> parse_condition(cond_parts[i])]

\* parse, lines 288-294: the ORDER BY terms, kept as written.
ParseOrderBy(rem) ==
    LET o == First({i \in 1..(Len(rem) - 2) :
                       upper(rem[i]) = kORDER /\ upper(rem[i + 1]) = kBY})
    IN IF o = 0 THEN <<>>
       ELSE LET terms == SplitComma(
                             JoinSp(SubSeq(rem, o + 2, LazyEnd(rem, o + 2, FALSE))),
                             <<>>, <<>>)
            IN [i \in 1..Len(terms) |-> strip(terms[i])]

\* int() of a run of decimal digits.
RECURSIVE int(_)
int(digits) ==
    IF digits = <<>> THEN 0
    ELSE 10 * int(SubSeq(digits, 1, Len(digits) - 1))
         + (CHOOSE d \in 0..9 : ToString(d) = digits[Len(digits)])

\* The longest prefix of s made of digits (\d+).
RECURSIVE DigitPrefix(_)
DigitPrefix(s) ==
    IF s /= <<>> /\ IsDigit(Head(s)) THEN <<Head(s)>> \o DigitPrefix(Tail(s)) ELSE <<>>

\* parse, lines 297-300: LIMIT; <<>> is None, <<n>> the limit n.
ParseLimit(rem) ==
    LET l == First({i \in 1..(Len(rem) - 1) :
                       upper(rem[i]) = kLIMIT /\ IsDigit(rem[i + 1][1])})
    IN IF l = 0 THEN <<>> ELSE <<int(DigitPrefix(rem[l + 1]))>>

\* Line 217: the text without surrounding blanks and trailing semicolons.
Stripped(text) == strip(rstrip(strip(text), ";"))

\* A variant of the match that compares the keywords case-sensitively.
SelectMatch_CaseSensitive(toks) ==
    LET hits == {i \in 3..(Len(toks) - 1) : toks[i] = kFROM} IN
    IF Len(toks) >= 1 /\ toks[1] = kSELECT /\ hits /= {}
    THEN CHOOSE i \in hits : \A h \in hits : i <= h
    ELSE 0

\* re.match(r"SELECT\s+(.+?)\s+FROM\s+", sql, re.IGNORECASE) over the lexemes of
\* sql: the index of the FROM lexeme that ends the lazy group, 0 when no match.
SelectMatch(toks) ==
    LET hits == {i \in 3..(Len(toks) - 1) : upper(toks[i]) = kFROM} IN
    IF Len(toks) >= 1 /\ upper(toks[1]) = kSELECT /\ hits /= {}
    THEN CHOOSE i \in hits : \A h \in hits : i <= h
    ELSE 0

\* The join loop's record for a text that has a FROM clause.
JoinsOf(text) ==
    LET toks == Lexemes(Stripped(text)) IN
    ParseJoins(ParseFrom(SubSeq(toks, SelectMatch(toks) + 1, Len(toks))).remainder)

parse(text) ==
    LET Build(columns, table, joins, rem, conditions) ==
            IF FirstRaised(conditions) /= 0 THEN conditions[FirstRaised(conditions)]
            ELSE WikiQuery(columns, table, joins, conditions,
                           ParseLimit(rem), ParseOrderBy(rem))
        AfterJoins(columns, table, js) ==
            IF Raised(js) THEN js
            ELSE Build(columns, table, js.joins, js.remainder, ParseWhere(js.remainder))
        AfterFrom(columns, from) ==
            IF FirstRaised(columns) /= 0 THEN columns[FirstRaised(columns)]
            ELSE IF Raised(from) THEN from
            ELSE AfterJoins(columns, from.table, ParseJoins(from.remainder))
        AfterSelect(toks, f) ==
            IF f = 0 THEN Raise("Could not parse SELECT ... FROM")
            ELSE AfterFrom(ParseColumns(toks, f), ParseFrom(SubSeq(toks, f + 1, Len(toks))))
        Of(toks) == AfterSelect(toks, SelectMatch(toks))
    IN Of(Lexemes(Stripped(text)))

(***************************************************************************)
(* Compiler (sparql.py).  Variable names and generated lines are strings.  *)
(***************************************************************************)
ColumnMapping(sparql_var, display_name) ==
    [sparql_var |-> sparql_var, display_name |-> display_name]

SparqlResult(sparql_text, column_map, select_vars, triples, optionals, filters) ==
    [sparql |-> sparql_text, column_map |-> column_map, select_vars |-> select_vars,
     triples |-> triples, optionals |-> optionals, filters |-> filters]

var(name) == "?" \o name

table_var(table) == IF table.alias /= None THEN Str(table.alias) ELSE "item"

prop_var(tvar, pid) == IF tvar = "item" THEN pid ELSE tvar \o "_" \o pid

InSeq(x, s) == \E i \in 1..Len(s) : s[i] = x

\* _ensure_prop on the insertion-ordered dict needed_props.
ensure_prop(needed_props, pid, tvar) ==
    LET key == tvar \o "." \o pid IN
    IF \E i \in 1..Len(needed_props) : needed_props[i].key = key THEN needed_props
    ELSE Append(needed_props, [key |-> key, pid |-> pid, tvar |-> tvar])

\* An append that skips a variable already selected (lines 80-84, 90-91).
AddOnce(select_vars, v) == IF InSeq(v, select_vars) THEN select_vars ELSE Append(select_vars, v)

\* One iteration of the column loop, lines 67-93.
ColumnStep(st, col, main_var) ==
    LET pid == Str(col.pid)
        pvar == prop_var(main_var, pid)
        label_var == pvar \o "Label"
        shown(default) == IF col.alias /= None THEN Str(col.alias) ELSE default
    IN IF col.kind = "ITEM"
       THEN [st EXCEPT !.select_vars = Append(@, var(main_var \o "Label")),
                       !.column_map = Append(@, ColumnMapping(main_var \o "Label", shown("item")))]
       ELSE IF col.kind = "ITEM_QID"
       THEN [st EXCEPT !.select_vars = Append(@, var(main_var)),
                       !.column_map = Append(@, ColumnMapping(main_var, shown("item_qid")))]
       ELSE IF col.kind = "LABEL"
       THEN [st EXCEPT !.needed_props = ensure_prop(@, pid, main_var),
                       !.select_vars = AddOnce(AddOnce(@, var(pvar)), var(label_var)),
                       !.column_map = Append(@, ColumnMapping(label_var, shown(pid)))]
       ELSE IF col.kind = "QID"
       THEN [st EXCEPT !.needed_props = ensure_prop(@, pid, main_var),
                       !.select_vars = AddOnce(@, var(pvar)),
                       !.column_map = Append(@, ColumnMapping(pvar, shown(pid \o "_qid")))]
       ELSE st

RECURSIVE ColumnLoop(_, _, _, _)
ColumnLoop(st, columns, i, main_var) ==
    IF i > Len(columns) THEN st
    ELSE ColumnLoop(ColumnStep(st, columns[i], main_var), columns, i + 1, main_var)

\* Lines 59-93: SELECT * alone decides the projection when a Star is present.
ProcessColumns(st, columns, main_var) ==
    IF \E i \in 1..Len(columns) : columns[i].kind = "STAR"
    THEN [st EXCEPT !.select_vars = @ \o <<var(main_var), var(main_var \o "Label")>>,
                    !.column_map = @ \o <<ColumnMapping(main_var, "item_qid"),
                                          ColumnMapping(main_var \o "Label", "item")>>]
    ELSE ColumnLoop(st, columns, 1, main_var)

\* The decimal digits of a natural number (its f-string form).
RECURSIVE DigitsOf(_)
DigitsOf(n) ==
    IF n < 10 THEN <<ToString(n)>> ELSE DigitsOf(n \div 10) \o <<ToString(n % 10)>>

\* A mis-ordered variant: the alias is stored before the counter is advanced.
JoinAlias_StoredBeforeIncrement(table, join_counter) ==
    IF table.alias /= None
    THEN [jvar |-> table.alias, join_counter |-> join_counter, table |-> table]
    ELSE [jvar |-> <<"j">> \o DigitsOf(join_counter + 1),
          join_counter |-> join_counter + 1,
          table |-> [table EXCEPT !.alias = <<"j">> \o DigitsOf(join_counter)]]

\* A variant that renames every join table, aliased or not.
JoinAlias_Overwrite(table, join_counter) ==
    [jvar |-> <<"j">> \o DigitsOf(join_counter + 1),
     join_counter |-> join_counter + 1,
     table |-> [table EXCEPT !.alias = <<"j">> \o DigitsOf(join_counter + 1)]]

\* Lines 99-104: the variable of a join table; an unaliased table gets j<k>.
JoinAlias(table, join_counter) ==
    IF table.alias /= None
    THEN [jvar |-> table.alias, join_counter |-> join_counter, table |-> table]
    ELSE [jvar |-> <<"j">> \o DigitsOf(join_counter + 1),
          join_counter |-> join_counter + 1,
          table |-> [table EXCEPT !.alias = <<"j">> \o DigitsOf(join_counter + 1)]]

parse_on_ref(ref, default_tvar) ==
    LET k == IndexOf(ref, ".") IN
    IF k /= 0
    THEN [tvar |-> Str(SubSeq(ref, 1, k - 1)), pid |-> Str(upper(SubSeq(ref, k + 1, Len(ref))))]
    ELSE [tvar |-> default_tvar, pid |-> Str(upper(ref))]

\* One iteration of the join loop, lines 97-126.
JoinStep(st, i, main_var) ==
    LET join == st.joins[i]
        a == JoinAlias(join.table, st.join_counter)
        jvar == Str(a.jvar)
        l == parse_on_ref(join.on_left, main_var)
        r == parse_on_ref(join.on_right, jvar)
        left_pvar == prop_var(l.tvar, l.pid)
        right_pvar == prop_var(r.tvar, r.pid)
    IN [st EXCEPT
          !.join_counter = a.join_counter,
          !.joins[i].table = a.table,
          !.triples = @ \o
              <<"  " \o var(jvar) \o " wdt:" \o Str(join.table.property)
                     \o " wd:" \o Str(join.table.qid) \o " .",
                "  " \o var(l.tvar) \o " wdt:" \o l.pid \o " " \o var(left_pvar) \o " .",
                "  " \o var(r.tvar) \o " wdt:" \o r.pid \o " " \o var(right_pvar) \o " .">>,
          !.filters = IF left_pvar /= right_pvar
                      THEN Append(@, "  FILTER(" \o var(left_pvar) \o " = "
                                         \o var(right_pvar) \o ")")
                      ELSE @]

RECURSIVE JoinLoop(_, _, _)
JoinLoop(st, i, main_var) ==
    IF i > Len(st.joins) THEN st ELSE JoinLoop(JoinStep(st, i, main_var), i + 1, main_var)

\* The property triple of the main table, lines 142, 145, 150, 161.
PropTriple(main_var, pid, pvar) ==
    "  " \o var(main_var) \o " wdt:" \o pid \o " " \o var(pvar) \o " ."

\* Lines 139-155: the filter of a _qid condition with = or !=.
QidFilter(pvar, op, value) ==
    LET val == upper(value) IN
    IF startswith(val, <<"Q">>)
    THEN "  FILTER(" \o var(pvar) \o " " \o op \o " wd:" \o Str(val) \o ")"
    ELSE "  FILTER(STR(" \o var(pvar) \o ") " \o op \o " \"" \o Str(value) \o "\")"

\* One iteration of the WHERE loop, lines 132-169.
ConditionStep(st, cond, main_var, lang) ==
    LET pid == Str(cond.pid)
        pvar == prop_var(main_var, pid)
        op == Str(cond.op)
        label_var == pvar \o "_label"
        st1 == [st EXCEPT !.needed_props = ensure_prop(@, pid, main_var),
                          !.where_constrained = @ \cup {pid}]
    IN IF cond.is_qid_col
       THEN IF op \in {"=", "!="}
            THEN [st1 EXCEPT !.triples = Append(@, PropTriple(main_var, pid, pvar)),
                             !.filters = Append(@, QidFilter(pvar, op, cond.value))]
            ELSE st1
       ELSE [st1 EXCEPT
               !.triples = @ \o
                   <<PropTriple(main_var, pid, pvar),
                     "  " \o var(pvar) \o " rdfs:label " \o var(label_var) \o " .",
                     "  FILTER(LANG(" \o var(label_var) \o ") = \"" \o lang \o "\")">>,
               !.filters = Append(@, "  FILTER(" \o var(label_var) \o " " \o op \o " \""
                                         \o Str(cond.value) \o "\"@" \o lang \o ")")]

RECURSIVE ConditionLoop(_, _, _, _, _)
ConditionLoop(st, conditions, i, main_var, lang) ==
    IF i > Len(conditions) THEN st
    ELSE ConditionLoop(ConditionStep(st, conditions[i], main_var, lang),
                       conditions, i + 1, main_var, lang)

\* Lines 172-183: an OPTIONAL triple for each needed property WHERE left alone.
RECURSIVE BuildOptionals(_, _, _)
BuildOptionals(needed_props, i, where_constrained) ==
    IF i > Len(needed_props) THEN <<>>
    ELSE LET p == needed_props[i]
             pvar == prop_var(p.tvar, p.pid)
         IN (IF p.pid \in where_constrained THEN <<>>
             ELSE <<"  OPTIONAL { " \o var(p.tvar) \o " wdt:" \o p.pid \o " "
                        \o var(pvar) \o " . }">>)
            \o BuildOptionals(needed_props, i + 1, where_constrained)

\* Lines 200-210: one ORDER BY term.
OrderTerm(term) ==
    LET tu == upper(term) IN
    IF endswith(tu, <<" ","A","S","C">>)
    THEN "ASC(" \o var(Str(strip(SubSeq(term, 1, Len(term) - 4)))) \o ")"
    ELSE IF endswith(tu, <<" ","D","E","S","C">>)
    THEN "DESC(" \o var(Str(strip(SubSeq(term, 1, Len(term) - 5)))) \o ")"
    ELSE var(Str(term))

\* sep.join(parts) of strings.
RECURSIVE JoinStr(_, _)
JoinStr(parts, sep) ==
    IF parts = <<>> THEN ""
    ELSE IF Len(parts) = 1 THEN parts[1]
    ELSE parts[1] \o sep \o JoinStr(Tail(parts), sep)

\* compile_query: the result and the WikiQuery as the call leaves it.
compile_query(q, lang) ==
    LET main_var == table_var(q.table)
        st0 == [triples |-> <<"  " \o var(main_var) \o " wdt:" \o Str(q.table.property)
                                   \o " wd:" \o Str(q.table.qid) \o " .">>,
                filters |-> <<>>, select_vars |-> <<>>, column_map |-> <<>>,
                needed_props |-> <<>>, join_counter |-> 0, joins |-> q.joins,
                where_constrained |-> {}]
        st1 == ProcessColumns(st0, q.columns, main_var)
        st2 == JoinLoop(st1, 1, main_var)
        st3 == ConditionLoop(st2, q.conditions, 1, main_var, lang)
        optionals == BuildOptionals(st3.needed_props, 1, st3.where_constrained)
        label_service == "  SERVICE wikibase:label { bd:serviceParam wikibase:language "
                             \o "\"[AUTO_LANGUAGE]," \o lang \o "\" . }"
        lines == <<"SELECT " \o JoinStr(st3.select_vars, " ") \o " WHERE {">>
                 \o st3.triples \o optionals \o st3.filters \o <<label_service, "}">>
                 \o (IF q.order_by /= <<>>
                     THEN <<"ORDER BY " \o JoinStr([i \in 1..Len(q.order_by) |->
                                                       OrderTerm(q.order_by[i])], " ")>>
                     ELSE <<>>)
                 \o (IF q.limit /= <<>> THEN <<"LIMIT " \o ToString(q.limit[1])>> ELSE <<>>)
    IN [result |-> SparqlResult(JoinStr(lines, "\n"), st3.column_map, st3.select_vars,
                                st3.triples, optionals, st3.filters),
        query |-> [q EXCEPT !.joins = st3.joins]]

(***************************************************************************)
(* The query texts the runs start from.  Each family varies one clause of  *)
(* the grammar and fixes the others; lexemes are separated by one blank.   *)
(***************************************************************************)
MaxColumns == 2

MaxJoins == 2

MaxConditions == 2

MaxCalls == 2

Languages == {"en", "ja"}

\* All sequences over S of length lo..hi.
SeqsOf(S, lo, hi) == UNION {[1..n -> S] : n \in lo..hi}

RECURSIVE Flatten(_)
Flatten(ss) == IF ss = <<>> THEN <<>> ELSE Head(ss) \o Flatten(Tail(ss))

\* Items of a list, a "," lexeme between consecutive ones.
RECURSIVE CommaList(_)
CommaList(items) ==
    IF Len(items) <= 1 THEN Flatten(items)
    ELSE Head(items) \o <<<<",">>>> \o CommaList(Tail(items))

\* Conditions of a WHERE clause, AND between consecutive ones.
RECURSIVE AndList(_)
AndList(items) ==
    IF Len(items) <= 1 THEN Flatten(items)
    ELSE Head(items) \o <<kAND>> \o AndList(Tail(items))

P17 == <<"P","1","7">>

P17qid == <<"P","1","7","_","q","i","d">>

P18 == <<"P","1","8">>

Q1 == <<"Q","1">>

\* Column tokens of the SELECT list, each as its lexemes.
ColumnTokens ==
    {<<<<"*">>>>, <<<<"i","t","e","m">>>>, <<<<"I","t","e","m","_","Q","I","D">>>>,
     <<P17>>, <<<<"p","1","7","_","Q","i","d">>>>, <<P18, <<"a","s">>, <<"c">>>>,
     <<<<"f","o","o">>>>}

\* SELECT ... FROM shapes, well-formed and not (missing keyword, table, columns).
ShapeTexts ==
    {s \o c \o f \o t \o a :
        s \in {<<kSELECT>>, <<<<"s","e","l","e","c","t">>>>, <<>>},
        c \in {<<>>, <<<<"*">>>>, <<<<"p","1","7">>>>},
        f \in {<<kFROM>>, <<<<"f","r","o","m">>>>, <<>>},
        t \in {<<Q1>>, <<<<"q","8","4","5","9","4","5">>>>,
               <<<<"p","2","7","9",":","Q","5">>>>, <<<<"X","1","2","3">>>>, <<>>},
        a \in {<<>>, <<<<"m">>, <<";">>>>}}

\* Column lists of up to MaxColumns columns over a main table with or without alias.
ColumnTexts ==
    {<<kSELECT>> \o CommaList(cs) \o <<kFROM, Q1>> \o a :
        cs \in SeqsOf(ColumnTokens, 1, MaxColumns),
        a \in {<<>>, <<kAS, <<"m">>>>}}

\* Join clauses, each as the lexemes of its head and of its ON clause.
JoinTokens ==
    {<<<<kJOIN, <<"Q","2">>>>, <<kON, P17, <<"=">>, P17>>>>,
     <<<<<<"j","o","i","n">>, <<"q","3">>>>,
       <<<<"o","n">>, <<"P","1","3","1","=","s",".","p","1","7">>>>>>,
     <<<<kINNER, kJOIN, <<"P","2","7","9",":","Q","4">>, kAS, <<"s">>>>,
       <<kON, <<"m",".","P","3","6">>, <<"=">>, <<"P","3","1">>>>>>,
     <<<<kJOIN, <<"Q","5">>, <<"j","1">>>>, <<kON, P17, <<"=">>, P18>>>>,
     <<<<kJOIN, <<"Q","6">>, <<"i","t","e","m">>>>,
       <<kON, P17, <<"=">>, <<"i","t","e","m",".","P","1","7">>>>>>}

\* Joins written one after another.
RECURSIVE FlatJoins(_)
FlatJoins(js) ==
    IF js = <<>> THEN <<>> ELSE Head(js)[1] \o Head(js)[2] \o FlatJoins(Tail(js))

\* Joins written each inside the previous one: JOIN a JOIN b ON .. ON ..
RECURSIVE NestedJoins(_)
NestedJoins(js) ==
    IF js = <<>> THEN <<>> ELSE Head(js)[1] \o NestedJoins(Tail(js)) \o Head(js)[2]

\* Up to MaxJoins joins, flat, nested, or flat with the last ON clause cut short.
JoinTexts ==
    {<<kSELECT, P17, <<",">>, P18, kFROM, Q1>> \o a \o body :
        a \in {<<>>, <<<<"m">>>>},
        body \in UNION {{FlatJoins(js), NestedJoins(js),
                         SubSeq(FlatJoins(js), 1, Len(FlatJoins(js)) - 1)} :
                        js \in SeqsOf(JoinTokens, 1, MaxJoins)}}

\* WHERE predicates, each as its lexemes.
ConditionTokens ==
    {<<P17qid, <<"=">>, <<"'","Q","1","7","'">>>>,
     <<P17qid, <<"!","=">>, <<"'","q","5","'">>>>,
     <<P17qid, <<"=">>, <<"'","x","y","z","'">>>>,
     <<P17qid, <<"!","=">>, <<"\"","Q","u","e","e","n","\"">>>>,
     <<P17qid, <<"<">>, <<"'","Q","5","'">>>>,
     <<<<"p","1","7","_","Q","I","D">>, <<">">>, <<"Q","5">>>>,
     <<<<"P","1","8","_","q","i","d","<","=","'","x","'">>>>,
     <<P17, <<"=">>, <<"'","J","a","p","a","n","'">>>>,
     <<<<"p","1","7">>, <<">","=">>, <<"'","x","'">>>>,
     <<<<"f","o","o">>, <<"=">>, <<"'","x","'">>>>,
     <<P17, <<"'","x","'">>>>}

\* The text around a WHERE clause: what precedes its conditions and what follows.
WhereFrames ==
    {<<<<kSELECT, P17, kFROM, Q1, kWHERE>>, <<>>>>,
     <<<<<<"s","e","l","e","c","t">>, P17qid, <<",">>, P18, <<",">>, <<"i","t","e","m">>,
         <<"f","r","o","m">>, <<"q","1">>, <<"m">>, <<"w","h","e","r","e">>>>,
       <<<<"o","r","d","e","r">>, kBY, P17, <<"D","E","S","C",",">>, <<"i","t","e","m">>,
         <<"l","i","m","i","t">>, <<"0","7">>, <<";">>>>>>}

WhereTexts ==
    {f[1] \o AndList(cs) \o f[2] :
        f \in WhereFrames, cs \in SeqsOf(ConditionTokens, 1, MaxConditions)}

Texts == {JoinSp(t) : t \in ShapeTexts \cup ColumnTexts \cup JoinTexts \cup WhereTexts}

(***************************************************************************)
(* cli.run_query: parse the text, then compile the WikiQuery.  The compile *)
(* step may be repeated on the same WikiQuery object.                      *)
(***************************************************************************)
NoQuery == [absent |-> TRUE]

NoResult == [absent |-> TRUE]

Init ==
    /\ sql \in Texts
    /\ language \in Languages
    /\ pc = "start"
    /\ query = NoQuery
    /\ error = ""
    /\ result = NoResult
    /\ calls = 0

Parse ==
    /\ pc = "start"
    /\ LET Returned(r) ==
               IF Raised(r)
               THEN pc' = "failed" /\ error' = r.raised /\ query' = query
               ELSE pc' = "parsed" /\ query' = r /\ error' = error
       IN Returned(parse(sql))
    /\ UNCHANGED <<sql, language, result, calls>>

Compile ==
    /\ pc \in {"parsed", "compiled"}
    /\ calls < MaxCalls
    /\ LET Returned(c) == query' = c.query /\ result' = c.result
       IN Returned(compile_query(query, language))
    /\ pc' = "compiled"
    /\ calls' = calls + 1
    /\ UNCHANGED <<sql, language, error>>

Next == Parse \/ Compile

Spec == Init /\ [][Next]_vars

(***************************************************************************)
(* Properties.                                                             *)
(***************************************************************************)
Compiled == pc = "compiled"

\* The WikiQuery as parse returned it, before any compile_query call.
Parsed == parse(sql)

\* The joins of the text that were written without an alias.
Unaliased == LET q == Parsed IN {i \in 1..Len(q.joins) : q.joins[i].table.alias = None}

\* C1: calling compile_query again on the same WikiQuery object returns the
\* same SPARQL text, byte for byte, and an equal column map, although the
\* first call has assigned synthetic aliases to the unaliased join tables.
C1_Determinism ==
    [][Compiled => /\ result'.sparql = result.sparql
                   /\ result'.column_map = result.column_map]_vars

\* A second call has returned for a query with two joins, one aliased by the
\* user and one that the first call named.
C1_Witness ==
    /\ Compiled
    /\ calls >= 2
    /\ Len(query.joins) >= 2
    /\ LET un == Unaliased IN un /= {} /\ un /= 1..Len(query.joins)

\* What a compile_query call may change of the WikiQuery q, q2 being the
\* WikiQuery after the call: nothing but the alias of an unaliased join table.
OnlyAliasesAssigned(q, q2) ==
    /\ q2.columns = q.columns
    /\ q2.table = q.table
    /\ q2.conditions = q.conditions
    /\ q2.limit = q.limit
    /\ q2.order_by = q.order_by
    /\ Len(q2.joins) = Len(q.joins)
    /\ \A i \in 1..Len(q.joins) :
          /\ q2.joins[i].on_left = q.joins[i].on_left
          /\ q2.joins[i].on_right = q.joins[i].on_right
          /\ q2.joins[i].table.property = q.joins[i].table.property
          /\ q2.joins[i].table.qid = q.joins[i].table.qid
          /\ IF q.joins[i].table.alias /= None
             THEN q2.joins[i].table.alias = q.joins[i].table.alias
             ELSE /\ Len(q2.joins[i].table.alias) >= 2
                  /\ Head(q2.joins[i].table.alias) = "j"
                  /\ AllDigits(Tail(q2.joins[i].table.alias))

\* C2: every compile_query call leaves columns, main table, conditions, limit,
\* order_by and each join's table property/qid and ON references as they were;
\* it only gives an alias j<k> to a join table that had none and never replaces
\* an alias that was there.
C2_QueryUnmodified ==
    [][(pc \in {"parsed", "compiled"}) => OnlyAliasesAssigned(query, query')]_vars

\* A call has returned for a query whose join list mixes a user alias with an
\* alias that a call assigned, the query having conditions and several columns.
C2_Witness ==
    /\ Compiled
    /\ calls = 1
    /\ LET un == Unaliased IN
       \E i, k \in 1..Len(query.joins) :
          /\ i \in un
          /\ k \notin un
          /\ query.joins[k].table.alias /= None
    /\ Len(query.columns) >= 2

MainVar == table_var(query.table)

\* Number of occurrences of x in the sequence s.
Count(x, s) == Cardinality({i \in 1..Len(s) : s[i] = x})

\* The OPTIONAL pattern binding property pid on the main variable.
OptionalTriple(main_var, pid) ==
    "  OPTIONAL { " \o var(main_var) \o " wdt:" \o pid \o " "
        \o var(prop_var(main_var, pid)) \o " . }"

\* The properties that a Label or Qid column selects, and those WHERE names.
SelectedPids ==
    {Str(query.columns[i].pid) :
        i \in {k \in 1..Len(query.columns) : query.columns[k].kind \in {"LABEL", "QID"}}}

ConditionPids == {Str(query.conditions[i].pid) : i \in 1..Len(query.conditions)}

\* C3: a property referenced by a SELECT column (Label or Qid) and by one or
\* more WHERE conditions is bound on the main variable by exactly one triple
\* pattern of the generated SPARQL, required and OPTIONAL patterns counted
\* together, and that pattern is not OPTIONAL.
C3_ExactlyOneTriple ==
    Compiled =>
        \A p \in SelectedPids \cap ConditionPids :
            /\ Count(PropTriple(MainVar, p, prop_var(MainVar, p)), result.triples) = 1
            /\ Count(OptionalTriple(MainVar, p), result.optionals) = 0

\* A value shaped like a QID: Q followed by digits, in either letter case.
QidShaped(value) == IsQidCI(value)

\* C4: a _qid condition with = or != has a required triple for its property,
\* and its filter compares the entity variable with wd:<QID> when the value is
\* shaped like a QID, and STR(variable) with the literal string for every
\* value that is not.
C4_QidOrStringFilter ==
    Compiled =>
        \A i \in 1..Len(query.conditions) :
            LET c == query.conditions[i]
                p == Str(c.pid)
                v == var(prop_var(MainVar, p))
            IN (c.is_qid_col /\ c.op \in {<<"=">>, <<"!", "=">>}) =>
                  /\ InSeq(PropTriple(MainVar, p, prop_var(MainVar, p)), result.triples)
                  /\ IF QidShaped(c.value)
                     THEN InSeq("  FILTER(" \o v \o " " \o Str(c.op) \o " wd:"
                                    \o Str(upper(c.value)) \o ")", result.filters)
                     ELSE InSeq("  FILTER(STR(" \o v \o ") " \o Str(c.op) \o " \""
                                    \o Str(c.value) \o "\")", result.filters)

\* C5: every condition on a _qid column, whatever its operator, has a required
\* triple binding its property on the main variable and a FILTER of its own:
\* no parsed condition is missing from the generated SPARQL.
C5_EveryQidConditionEmitted ==
    Compiled =>
        /\ \A i \in 1..Len(query.conditions) :
              query.conditions[i].is_qid_col =>
                  InSeq(PropTriple(MainVar, Str(query.conditions[i].pid),
                                   prop_var(MainVar, Str(query.conditions[i].pid))),
                        result.triples)
        /\ (query.joins = <<>> => Len(result.filters) = Len(query.conditions))

\* C9: no variable appears twice in the SELECT projection.
C9_ProjectionHasNoDuplicates ==
    Compiled =>
        \A i, k \in 1..Len(result.select_vars) :
            i /= k => result.select_vars[i] /= result.select_vars[k]

\* The column map entry the compiler documents for one declared column.
EntryOf(col, main_var) ==
    LET pid == Str(col.pid)
        shown(default) == IF col.alias /= None THEN Str(col.alias) ELSE default
    IN CASE col.kind = "ITEM" -> ColumnMapping(main_var \o "Label", shown("item"))
         [] col.kind = "ITEM_QID" -> ColumnMapping(main_var, shown("item_qid"))
         [] col.kind = "LABEL" ->
                ColumnMapping(prop_var(main_var, pid) \o "Label", shown(pid))
         [] col.kind = "QID" ->
                ColumnMapping(prop_var(main_var, pid), shown(pid \o "_qid"))

\* The declared columns that are not the Star, in declaration order.
RECURSIVE NonStar(_)
NonStar(columns) ==
    IF columns = <<>> THEN <<>>
    ELSE (IF Head(columns).kind = "STAR" THEN <<>> ELSE <<Head(columns)>>)
         \o NonStar(Tail(columns))

HasStar == \E i \in 1..Len(query.columns) : query.columns[i].kind = "STAR"

\* C10: the column map lists the declared columns in declaration order; with a
\* Star among them its two entries (main variable -> item_qid, label variable
\* -> item) come first and the entries of the other declared columns follow.
C10_ColumnMapFollowsDeclaration ==
    Compiled =>
        LET others == NonStar(query.columns)
            star == IF HasStar
                    THEN <<ColumnMapping(MainVar, "item_qid"),
                           ColumnMapping(MainVar \o "Label", "item")>>
                    ELSE <<>>
        IN result.column_map = star \o [i \in 1..Len(others) |-> EntryOf(others[i], MainVar)]

\* Where the join loop found each join of the text, in the order of query.joins.
Spans == JoinsOf(sql).spans

\* The joins come in the order their clauses begin in the query text.
InTextOrder ==
    LET sp == Spans IN \A i, k \in 1..Len(sp) : i < k => sp[i].start < sp[k].start

\* Every join clause is one contiguous piece of the query text.
JoinsContiguous ==
    LET sp == Spans IN \A i \in 1..Len(sp) : sp[i].stop - sp[i].start + 1 = sp[i].lexemes

\* The k-th join written without an alias is named j<k> by compile_query.
SyntheticAliasesInOrder ==
    LET un == Unaliased IN
    \A i \in un :
        query.joins[i].table.alias = <<"j">> \o DigitsOf(Cardinality({k \in un : k <= i}))

\* C6 as stated: parse returns the joins in left-to-right text order, and the
\* k-th unaliased join receives the synthetic alias j<k>.
C6_JoinsInTextOrder ==
    /\ (pc = "parsed" /\ query.joins /= <<>>) => InTextOrder
    /\ (Compiled /\ query.joins /= <<>>) => SyntheticAliasesInOrder

\* C6, amended: the k-th unaliased join of the parsed list receives j<k>, and
\* the parsed list is in left-to-right text order whenever every join clause
\* is contiguous in the text (none is written inside another).
C6_JoinsInTextOrderWhenContiguous ==
    /\ (pc = "parsed" /\ query.joins /= <<>> /\ JoinsContiguous) => InTextOrder
    /\ (Compiled /\ query.joins /= <<>>) => SyntheticAliasesInOrder

\* Two joins written one after the other without aliases have been compiled.
C6_Witness ==
    /\ Compiled
    /\ calls = 1
    /\ Len(query.joins) = 2
    /\ Unaliased = {1, 2}
    /\ JoinsContiguous
    /\ InTextOrder
    /\ query.joins[1].table.alias = <<"j", "1">>
    /\ query.joins[2].table.alias = <<"j", "2">>

SelectStarFromQ1 ==
    <<"S","E","L","E","C","T"," ","*"," ","F","R","O","M"," ","Q","1">>

MalformedQuery == "Could not parse SELECT ... FROM"

\* A text of the shape SELECT <cols> FROM <rest>: the first lexeme is SELECT,
\* a later lexeme, the third at the earliest, is FROM, and text follows it.
SelectFromShape(text) ==
    LET toks == Lexemes(Stripped(text)) IN
    /\ Len(toks) >= 4
    /\ upper(toks[1]) = kSELECT
    /\ \E i \in 3..(Len(toks) - 1) : upper(toks[i]) = kFROM

\* C7 as stated: parse("SELECT * FROM Q1") fails with MalformedQuery, and
\* MalformedQuery is raised exactly for the texts without the SELECT/FROM shape.
C7_SelectStarFromQ1Malformed ==
    pc /= "start" =>
        /\ sql = SelectStarFromQ1 => (pc = "failed" /\ error = MalformedQuery)
        /\ (pc = "failed" /\ error = MalformedQuery) <=> ~SelectFromShape(sql)

\* C7, amended: parse("SELECT * FROM Q1") returns the WikiQuery with the single
\* Star column over table P31:Q1, and MalformedQuery is raised exactly for the
\* texts without the SELECT/FROM shape, such as "SELECT * FROM".
C7_MalformedExactlyWithoutShape ==
    pc /= "start" =>
        /\ sql = SelectStarFromQ1 =>
              /\ pc /= "failed"
              /\ query.columns = <<Column("STAR", None, None)>>
              /\ query.table = WikiTable(<<"P","3","1">>, Q1, None)
        /\ (pc = "failed" /\ error = MalformedQuery) <=> ~SelectFromShape(sql)

\* parse has returned a WikiQuery for "SELECT * FROM Q1".
C7_Witness == sql = SelectStarFromQ1 /\ pc = "parsed"

\* The keywords of the query language.
CaseKeywords == {kSELECT, kFROM, kAS, kJOIN, kINNER, kON, kWHERE, kAND, kORDER, kBY, kLIMIT}

\* Lexeme i of toks with the letter case of a keyword, column token, table
\* token or WHERE column name changed by fn; any other lexeme (alias, literal
\* value, ON reference, ORDER BY term) is left as written.  f and w are the
\* places of the first FROM and the first WHERE, 0 when absent.
Recase(toks, i, f, w, fn(_)) ==
    LET t == toks[i]
        o == OpStart(t)
    IN IF upper(t) \in CaseKeywords THEN fn(t)
       ELSE IF i < f /\ (COLUMN_RE(t) \/ lower(t) \in {<<"i","t","e","m">>,
                                                       <<"i","t","e","m","_","q","i","d">>})
            THEN fn(t)
       ELSE IF i > 1 /\ upper(toks[i - 1]) \in {kFROM, kJOIN} /\ TABLE_RE(t) THEN fn(t)
       ELSE IF w /= 0 /\ i > w /\ i < Len(toks) /\ toks[i + 1] \in Op THEN fn(t)
       ELSE IF w /= 0 /\ i > w /\ o > 1
            THEN fn(SubSeq(t, 1, o - 1)) \o SubSeq(t, o, Len(t))
       ELSE t

RecaseText(text, fn(_)) ==
    LET toks == Lexemes(text)
        ups == [k \in 1..Len(toks) |-> upper(toks[k])]
        f == First({k \in 1..Len(toks) : ups[k] = kFROM})
        w == First({k \in 1..Len(toks) : ups[k] = kWHERE})
    IN JoinSp([i \in 1..Len(toks) |-> Recase(toks, i, f, w, fn)])

\* The query text with those lexemes in lower case, and in upper case.
LowerCased(text) == RecaseText(text, lower)

UpperCased(text) == RecaseText(text, upper)

\* C8 as stated: texts that differ only in the letter case of keywords and of
\* property/entity identifiers parse to equal WikiQuery values.
C8_CaseInsensitive ==
    pc = "parsed" => /\ parse(LowerCased(sql)) = query
                     /\ parse(UpperCased(sql)) = query

\* The WikiQuery without the letter case of Condition.column, the WHERE column
\* name that parse keeps as written.
ColumnCaseErased(q) ==
    [q EXCEPT !.conditions =
        [i \in 1..Len(q.conditions) |-> [q.conditions[i] EXCEPT !.column = upper(@)]]]

\* C8, amended: such texts parse to WikiQuery values equal in every field but
\* Condition.column, which keeps the letter case of the text.
C8_CaseInsensitiveButConditionColumn ==
    pc = "parsed" =>
        LET lo == parse(LowerCased(sql))
            up == parse(UpperCased(sql))
        IN /\ ~Raised(lo)
           /\ ~Raised(up)
           /\ ColumnCaseErased(lo) = ColumnCaseErased(query)
           /\ ColumnCaseErased(up) = ColumnCaseErased(query)

\* A text with a WHERE clause has been parsed whose lower-cased and upper-cased
\* forms both differ from it.
C8_Witness ==
    /\ pc = "parsed"
    /\ query.conditions /= <<>>
    /\ LowerCased(sql) /= sql
    /\ UpperCased(sql) /= sql

\* C11: the variable of property p of the main table is named p, with label
\* variable pLabel, whether or not the main table has an alias; the variable of
\* property p of a joined table with alias a is named a_p.  Checked on the
\* projection of every Label or Qid column of a query without Star, and on the
\* triple of every ON right-hand side that refers to its own join table.
C11_VariableNaming ==
    Compiled =>
        /\ ~HasStar =>
              \A i \in 1..Len(query.columns) :
                  LET col == query.columns[i] IN
                  /\ col.kind \in {"LABEL", "QID"} =>
                         InSeq(var(Str(col.pid)), result.select_vars)
                  /\ col.kind = "LABEL" =>
                         InSeq(var(Str(col.pid) \o "Label"), result.select_vars)
        /\ \A i \in 1..Len(query.joins) :
               LET a == Str(query.joins[i].table.alias)
                   r == parse_on_ref(query.joins[i].on_right, a)
               IN r.tvar = a =>
                      InSeq("  " \o var(a) \o " wdt:" \o r.pid \o " "
                                 \o var(a \o "_" \o r.pid) \o " .",
                            result.triples)

\* The OPTIONAL pattern that binds property pid of the main variable to the
\* variable named v.
OptionalOn(main_var, pid, v) ==
    "  OPTIONAL { " \o var(main_var) \o " wdt:" \o pid \o " " \o var(v) \o " . }"

\* The names an entity variable of property pid on the main variable can have.
EntityNames(main_var, pid) == {pid, main_var \o "_" \o pid}

\* The query SELECT P17 FROM Q845945, in any letter case of its words.
SelectP17FromQ845945 ==
    WikiQuery(<<Column("LABEL", P17, None)>>,
              WikiTable(<<"P","3","1">>, <<"Q","8","4","5","9","4","5">>, None),
              <<>>, <<>>, <<>>, <<>>)

\* C12: every property of a Label or Qid column that no WHERE condition names
\* has exactly one OPTIONAL triple on the main variable, and the entity
\* variable that triple binds is in the projection; SELECT P17 FROM Q845945
\* yields the triple ?item wdt:P31 wd:Q845945 ., the optional triple
\* ?item wdt:P17 ?P17 ., the projection ?P17 ?P17Label and the column map
\* entry P17Label -> P17.
C12_OptionalForUnconstrainedColumn ==
    Compiled =>
        /\ \A p \in SelectedPids \ ConditionPids :
               LET bound == {i \in 1..Len(result.optionals) :
                                \E v \in EntityNames(MainVar, p) :
                                    result.optionals[i] = OptionalOn(MainVar, p, v)}
               IN /\ Cardinality(bound) = 1
                  /\ \E v \in EntityNames(MainVar, p) :
                         /\ InSeq(OptionalOn(MainVar, p, v), result.optionals)
                         /\ InSeq(var(v), result.select_vars)
        /\ query = SelectP17FromQ845945 =>
               /\ result.triples = <<"  ?item wdt:P31 wd:Q845945 .">>
               /\ result.optionals = <<"  OPTIONAL { ?item wdt:P17 ?P17 . }">>
               /\ result.select_vars = <<"?P17", "?P17Label">>
               /\ result.column_map = <<ColumnMapping("P17Label", "P17")>>

\* The entity variable of every table of the query: the main table's, then
\* the join tables' in order.
TableVars ==
    <<MainVar>> \o [i \in 1..Len(query.joins) |-> Str(query.joins[i].table.alias)]

\* The class-membership triple of a table on the variable named v.
MembershipTriple(v, table) ==
    "  " \o var(v) \o " wdt:" \o Str(table.property) \o " wd:" \o Str(table.qid) \o " ."

\* C13: after compile_query the entity variables of the main table and of all
\* join tables are pairwise different, whether the aliases were written or
\* assigned, and each table's class-membership triple is on its own variable.
C13_DistinctTableVariables ==
    Compiled =>
        /\ \A i, k \in 1..Len(TableVars) : i /= k => TableVars[i] /= TableVars[k]
        /\ InSeq(MembershipTriple(MainVar, query.table), result.triples)
        /\ \A i \in 1..Len(query.joins) :
               InSeq(MembershipTriple(TableVars[i + 1], query.joins[i].table),
                     result.triples)
====
